---- MODULE Spec2Model ----
(***************************************************************************)
(* Model of the slides-generator front end:                                *)
(*   - the NextAuth callbacks jwt / session and refreshAccessToken         *)
(*     (client/src/app/api/auth/[...nextauth]/route.ts, lib/auth.ts),      *)
(*   - the chat page's handleSubmit and its link rendering                 *)
(*     (client/src/app/layout/page.tsx).                                   *)
(* Times are milliseconds since the epoch, as Date.now() returns them.     *)
(* Strings that the code takes apart (textarea value, message text, url)   *)
(* are sequences of one-character strings; opaque strings (tokens, ids)    *)
(* are TLA+ strings.                                                       *)
(***************************************************************************)
EXTENDS Integers, Sequences, FiniteSets, TLC

VARIABLES
  now,          \* Date.now()
  signedIn,     \* a session cookie (JWT) exists
  token,        \* the JWT payload stored in the session cookie
  session,      \* useSession().data as the chat page sees it
  sessionExp,   \* ghost: accessTokenExpires of the token `session` was built from
  jwtPc,        \* position of the jwt callback: "idle" | "fetching" (await fetch, line 15)
  jwtArg,       \* ghost: the token argument of the current / last jwt invocation
  jwtNow,       \* ghost: Date.now() when the current / last jwt invocation started
  jwtOut,       \* ghost: how the last jwt invocation returned
  fetchCalls,   \* ghost: token-endpoint calls made by the current / last jwt invocation
  account,      \* ghost: the account argument of the last initial sign-in
  response,     \* ghost: the token-endpoint response the last refresh received
  input,        \* input.current.value of the textarea
  messages,     \* useState<Message[]>
  check,        \* useState(false): the in-flight flag
  chatPc,       \* position of handleSubmit: "idle" | "awaiting" (await fetch, line 49)
  request,      \* the generation request in flight / last sent
  fetches,      \* ghost: generation requests sent so far
  reply,        \* ghost: the backend reply the last settled submit received
  lastSubmit,   \* ghost: what the last handleSubmit invocation / resumption did
  logBefore     \* ghost: messages when the last accepted submit was invoked

authVars == <<signedIn, token, session, sessionExp, jwtPc, jwtArg, jwtNow,
              jwtOut, fetchCalls, account, response>>
chatVars == <<input, messages, check, chatPc, request, fetches, reply,
              lastSubmit, logBefore>>
vars == <<now, authVars, chatVars>>

---------------------------------------------------------------------------
(* Bounds of the model *)

\* each clock reading is at most this many seconds past a whole hour
MaxSeconds == 2
\* the clock jumps a whole hour at most this many times
MaxHours == 1
\* largest lifetime (seconds) an identity provider declares
MaxLifetime == 2
\* longest textarea value
MaxTopicLen == 2
\* longest url in a backend reply
MaxUrlLen == 2
\* the conversation is followed up to this many messages
MaxMessages == 2
\* with the credential lifecycle running beside it, the conversation is
\* followed up to this many accepted submits
MaxExchanges == 2

---------------------------------------------------------------------------
(* JavaScript values *)

\* the value undefined of a string-valued property
Undefined == "undefined"
\* the value undefined of a number-valued property (expires_in left out)
NoNumber == -1
\* NaN, the value of Date.now() + undefined * 1000
NaN == -2

\* a * 1000 for a number or undefined
TimesThousand(a) == IF a = NoNumber \/ a = NaN THEN NaN ELSE a * 1000

\* a + b
Plus(a, b) == IF a = NaN \/ b = NaN THEN NaN ELSE a + b

\* a < b : false when either side is NaN
Less(a, b) == a # NaN /\ b # NaN /\ a < b

\* truthiness of a number or undefined
TruthyNumber(a) == a # NoNumber /\ a # NaN /\ a # 0

---------------------------------------------------------------------------
(* route.ts: jwt, refreshAccessToken, session *)

RefreshAccessTokenError == "RefreshAccessTokenError"

HourMs == 3600 * 1000

\* the payload before any sign-in
NoToken ==
  [accessToken |-> Undefined, accessTokenExpires |-> NoNumber,
   refreshToken |-> Undefined, user |-> Undefined, error |-> Undefined]

NoSession == [accessToken |-> Undefined, error |-> Undefined, user |-> Undefined]

NoAccount == [access_token |-> Undefined, expires_in |-> NoNumber, refresh_token |-> Undefined]

NoResponse ==
  [kind |-> "none", access_token |-> Undefined, expires_in |-> NoNumber,
   refresh_token |-> Undefined]

\* jwt, branch `if (account && profile)` : the token of an initial sign-in
JwtSignIn(acc, sub, t) ==
  [accessToken |-> acc.access_token,
   accessTokenExpires |->
     Plus(t, IF TruthyNumber(acc.expires_in)
             THEN TimesThousand(acc.expires_in)
             ELSE HourMs),
   refreshToken |-> acc.refresh_token,
   user |-> sub,
   error |-> Undefined]

\* variant: the token is given up one second early
TokenStillValid_Skewed(tok, t) == Less(t + 1000, tok.accessTokenExpires)

\* variant: the token is still used at the very instant it expires
TokenStillValid_Inclusive(tok, t) ==
  tok.accessTokenExpires # NaN /\ t <= tok.accessTokenExpires

\* jwt, `if (Date.now() < token.accessTokenExpires)`
TokenStillValid(tok, t) == Less(t, tok.accessTokenExpires)

\* variant: the catch block returns the error without spreading the token
RefreshAccessToken_DropsOnFailure(tok, resp, t) ==
  IF resp.kind = "ok"
  THEN [tok EXCEPT
          !.accessToken = resp.access_token,
          !.accessTokenExpires = Plus(t, TimesThousand(resp.expires_in)),
          !.refreshToken = IF resp.refresh_token # Undefined
                           THEN resp.refresh_token
                           ELSE tok.refreshToken]
  ELSE [accessToken |-> Undefined, accessTokenExpires |-> NoNumber,
        refreshToken |-> Undefined, user |-> Undefined,
        error |-> "RefreshAccessTokenError"]

\* variant: the refresh token is taken from the response without fallback
RefreshAccessToken_NoFallback(tok, resp, t) ==
  IF resp.kind = "ok"
  THEN [tok EXCEPT
          !.accessToken = resp.access_token,
          !.accessTokenExpires = Plus(t, TimesThousand(resp.expires_in)),
          !.refreshToken = resp.refresh_token]
  ELSE [tok EXCEPT !.error = "RefreshAccessTokenError"]

\* variant: the new expiry is the lifetime alone, Date.now() left out
RefreshAccessToken_RelativeExpiry(tok, resp, t) ==
  IF resp.kind = "ok"
  THEN [tok EXCEPT
          !.accessToken = resp.access_token,
          !.accessTokenExpires = TimesThousand(resp.expires_in),
          !.refreshToken = IF resp.refresh_token # Undefined
                           THEN resp.refresh_token
                           ELSE tok.refreshToken]
  ELSE [tok EXCEPT !.error = "RefreshAccessTokenError"]

\* variant: a successful refresh clears the error tag
RefreshAccessToken_ClearsError(tok, resp, t) ==
  IF resp.kind = "ok"
  THEN [tok EXCEPT
          !.accessToken = resp.access_token,
          !.accessTokenExpires = Plus(t, TimesThousand(resp.expires_in)),
          !.refreshToken = IF resp.refresh_token # Undefined
                           THEN resp.refresh_token
                           ELSE tok.refreshToken,
          !.error = Undefined]
  ELSE [tok EXCEPT !.error = "RefreshAccessTokenError"]

\* refreshAccessToken after its fetch has settled with resp at time t.
\* kind: "ok"      response.ok and a JSON body
\*       "notok"   JSON body, !response.ok   -> throw refreshedTokens
\*       "neterr"  fetch rejects
\*       "badjson" response.json() rejects
RefreshAccessToken(tok, resp, t) ==
  IF resp.kind = "ok"
  THEN [tok EXCEPT
          !.accessToken = resp.access_token,
          !.accessTokenExpires = Plus(t, TimesThousand(resp.expires_in)),
          !.refreshToken = IF resp.refresh_token # Undefined
                           THEN resp.refresh_token
                           ELSE tok.refreshToken]
  ELSE [tok EXCEPT !.error = RefreshAccessTokenError]

\* variant: the callback copies the refresh token as well
SessionCallback_Leaks(tok) ==
  [accessToken |-> tok.accessToken,
   error |-> tok.error,
   user |-> IF tok.user # Undefined THEN tok.user ELSE Undefined,
   refreshToken |-> tok.refreshToken]

\* session callback: the projection handed to the client
SessionCallback(tok) ==
  [accessToken |-> tok.accessToken,
   error |-> tok.error,
   user |-> IF tok.user # Undefined THEN tok.user ELSE Undefined]

---------------------------------------------------------------------------
(* layout/page.tsx: handleSubmit and the rendering of a message *)

\* all sequences over S of length at most n
SeqsUpTo(S, n) == UNION {[1..k -> S] : k \in 0..n}

\* characters String.prototype.trim removes, and those the regex dot refuses
WhiteSpace == {" ", "\t", "\n"}
LineTerminators == {"\n"}

RECURSIVE TrimStart(_)
TrimStart(s) ==
  IF s # <<>> /\ Head(s) \in WhiteSpace THEN TrimStart(Tail(s)) ELSE s

RECURSIVE TrimEnd(_)
TrimEnd(s) ==
  IF s # <<>> /\ s[Len(s)] \in WhiteSpace
  THEN TrimEnd(SubSeq(s, 1, Len(s) - 1))
  ELSE s

\* String.prototype.trim
Trim(s) == TrimEnd(TrimStart(s))

\* variant: the guard compares the untrimmed value
SubmitRejected_NoTrim(value, sess) ==
  value = <<>> \/ sess.accessToken = Undefined

\* the guard of handleSubmit (input.current is set once the page is mounted)
SubmitRejected(value, sess) ==
  Trim(value) = <<>> \/ sess.accessToken = Undefined

\* "Here's your Google Slides presentation", with U+2019 written RSQUO
RenderPrefix ==
  <<"H", "e", "r", "e", "RSQUO", "s", " ", "y", "o", "u", "r", " ", "G", "o",
    "o", "g", "l", "e", " ", "S", "l", "i", "d", "e", "s", " ", "p", "r",
    "e", "s", "e", "n", "t", "a", "t", "i", "o", "n">>

\* " -> [View Presentation](", with U+1F449 written POINTER
LinkLabel ==
  <<" ", "POINTER", " ", "[", "V", "i", "e", "w", " ", "P", "r", "e", "s",
    "e", "n", "t", "a", "t", "i", "o", "n", "]", "(">>

ApologyText ==
  <<"S", "o", "r", "r", "y", ",", " ", "I", " ", "c", "o", "u", "l", "d", "n",
    "RSQUO", "t", " ", "g", "e", "n", "e", "r", "a", "t", "e", " ", "y", "o",
    "u", "r", " ", "s", "l", "i", "d", "e", "s", ".">>

TryAgainText ==
  <<"S", "o", "m", "e", "t", "h", "i", "n", "g", " ", "w", "e", "n", "t", " ",
    "w", "r", "o", "n", "g", ".", " ", "T", "r", "y", " ", "a", "g", "a",
    "i", "n", "!">>

\* the template literal of the success message
SuccessText(url) == RenderPrefix \o LinkLabel \o url \o <<")">>

\* a backend reply as handleSubmit sees it.
\* kind: "neterr"  fetch rejects
\*       "badjson" res.json() rejects
\*       "null"    the body is the JSON value null: data.success throws
\*       "object"  the body is a JSON object; hasUrl says whether it has url
NoReply == [kind |-> "none", success |-> FALSE, hasUrl |-> FALSE, url |-> <<>>]

\* variant: a body that cannot be parsed is treated as an empty object
ReplyThrows_OnlyFetch(rep) == rep.kind \in {"neterr", "null"}

\* the reply makes the try block throw
ReplyThrows(rep) == rep.kind \in {"neterr", "badjson", "null"}

\* variant: only data.success is tested
ReplySucceeds_IgnoresUrl(rep) == rep.success

\* `data.success && data.url`
ReplySucceeds(rep) == rep.success /\ rep.hasUrl /\ rep.url # <<>>

\* which of the three setMessages calls runs
Outcome(rep) ==
  IF ReplyThrows(rep) THEN "hard"
  ELSE IF ReplySucceeds(rep) THEN "success"
  ELSE "soft"

\* the text of the message appended when the call settles
ReplyText(rep) ==
  IF ReplyThrows(rep) THEN TryAgainText
  ELSE IF ReplySucceeds(rep) THEN SuccessText(rep.url)
  ELSE ApologyText

\* variant: the user message replaces the log instead of extending it
LogAfterSubmit_Overwrites(log, value) == <<[sender |-> "user", text |-> value]>>

\* setMessages((prev) => [...prev, {sender: "user", text: userMessage}])
LogAfterSubmit(log, value) == Append(log, [sender |-> "user", text |-> value])

\* variant: a soft failure also runs into the catch block
LogAfterSettle_CatchesToo(log, rep) ==
  IF ReplyThrows(rep) \/ ReplySucceeds(rep)
  THEN Append(log, [sender |-> "ai", text |-> ReplyText(rep)])
  ELSE log \o <<[sender |-> "ai", text |-> ApologyText],
                [sender |-> "ai", text |-> TryAgainText]>>

\* the one setMessages((prev) => [...prev, {sender: "ai", ...}]) that runs
LogAfterSettle(log, rep) ==
  Append(log, [sender |-> "ai", text |-> ReplyText(rep)])

\* variant: setCheck(true) is left out
CheckAfterSubmit_Forgotten(flag) == flag

\* setCheck(true)
CheckAfterSubmit(flag) == TRUE

\* variant: setCheck(false) at the end of the try block, not in finally
CheckAfterSettle_NoFinally(flag, rep) == flag /\ ReplyThrows(rep)

\* finally { setCheck(false) }
CheckAfterSettle(flag, rep) == FALSE

\* variant: the button is never disabled
ButtonDisabled_Never(flag) == FALSE

\* <button onClick={handleSubmit} disabled={check}>
ButtonDisabled(flag) == flag

\* String.prototype.startsWith
StartsWith(s, p) == Len(s) >= Len(p) /\ SubSeq(s, 1, Len(p)) = p

\* positions where /\((.*?)\)/ can start: a "(" with a ")" after it on the same line
MatchStarts(text) ==
  {i \in 1..Len(text) :
     /\ text[i] = "("
     /\ \E j \in (i + 1)..Len(text) :
          /\ text[j] = ")"
          /\ \A k \in (i + 1)..(j - 1) : text[k] \notin LineTerminators}

Min(S) == CHOOSE x \in S : \A y \in S : x <= y

\* text.match(/\((.*?)\)/)?.[1] : the lazy group of the leftmost match,
\* the empty string standing for both "" and no match
MatchLink(text) ==
  IF MatchStarts(text) = {} THEN <<>>
  ELSE LET i == Min(MatchStarts(text))
           j == Min({m \in (i + 1)..Len(text) : text[m] = ")"})
       IN SubSeq(text, i + 1, j - 1)

\* the href of the anchor rendered for a message that starts with RenderPrefix
Href(text) == IF MatchLink(text) # <<>> THEN MatchLink(text) ELSE <<"#">>

\* the message is rendered as a link
RendersLink(text) == StartsWith(text, RenderPrefix)

---------------------------------------------------------------------------
(* Inputs *)

AccessTokens == {"at1"}
RefreshedAccessTokens == {"at2", "at3"}
RefreshTokens == {"rt1"}
RotatedRefreshTokens == {"rt2"}
Subs == {"u1"}
Lifetimes == {NoNumber} \cup 0..MaxLifetime

\* account of an initial sign-in
Accounts ==
  [access_token : AccessTokens, expires_in : Lifetimes, refresh_token : RefreshTokens]

\* what the token endpoint can answer
FailedResponses ==
  {[NoResponse EXCEPT !.kind = k] : k \in {"notok", "neterr", "badjson"}}
Responses ==
  [kind : {"ok"}, access_token : RefreshedAccessTokens, expires_in : Lifetimes,
   refresh_token : {Undefined} \cup RotatedRefreshTokens]
  \cup FailedResponses

\* one account and two answers, for the runs that follow the conversation
\* beside the credential lifecycle
OneAccount == {a \in Accounts : a.expires_in = 1}
TwoResponses ==
  {r \in Responses :
     \/ r.kind = "notok"
     \/ r.kind = "ok" /\ r.access_token = "at2" /\ r.expires_in = 1
        /\ r.refresh_token = Undefined}

TopicChars == {" ", "a"}
UrlChars == {"u", "(", ")"}
Topics == SeqsUpTo(TopicChars, MaxTopicLen)
Urls == SeqsUpTo(UrlChars, MaxUrlLen)

\* what the generation backend can answer
Replies ==
  {[NoReply EXCEPT !.kind = k] : k \in {"neterr", "badjson", "null"}}
  \cup [kind : {"object"}, success : BOOLEAN, hasUrl : {FALSE}, url : {<<>>}]
  \cup [kind : {"object"}, success : {TRUE}, hasUrl : {TRUE}, url : Urls]
  \cup [kind : {"object"}, success : {FALSE}, hasUrl : {TRUE},
        url : {u \in Urls : Len(u) <= 1}]

\* one topic and three answers, for the runs that follow the conversation
\* beside the credential lifecycle
OneTopic == {<<"a">>}
ThreeReplies ==
  {r \in Replies :
     \/ r.kind = "neterr"
     \/ r.kind = "object" /\ r.success /\ r.hasUrl /\ r.url = <<"u">>
     \/ r.kind = "object" /\ ~r.success /\ ~r.hasUrl}

NoRequest ==
  [topic |-> <<>>, access_token |-> Undefined, authorization |-> <<"Bearer", Undefined>>,
   sentAt |-> 0, tokenExp |-> NoNumber]

---------------------------------------------------------------------------
(* Initial state: no cookie, the page mounted with an empty conversation *)

Init ==
  /\ now = 0
  /\ signedIn = FALSE
  /\ token = NoToken
  /\ session = NoSession
  /\ sessionExp = NoNumber
  /\ jwtPc = "idle"
  /\ jwtArg = NoToken
  /\ jwtNow = 0
  /\ jwtOut = "none"
  /\ fetchCalls = 0
  /\ account = NoAccount
  /\ response = NoResponse
  /\ input = <<>>
  /\ messages = <<>>
  /\ check = FALSE
  /\ chatPc = "idle"
  /\ request = NoRequest
  /\ fetches = 0
  /\ reply = NoReply
  /\ lastSubmit = "none"
  /\ logBefore = <<>>

---------------------------------------------------------------------------
(* The clock *)

TickSecond ==
  /\ (now % HourMs) + 1000 <= MaxSeconds * 1000
  /\ now' = now + 1000
  /\ UNCHANGED <<authVars, chatVars>>

TickHour ==
  /\ now \div HourMs < MaxHours
  /\ now' = now + HourMs
  /\ UNCHANGED <<authVars, chatVars>>

---------------------------------------------------------------------------
(* The jwt and session callbacks *)

\* jwt({token, account, profile}) of an initial sign-in
SignIn(acc, sub) ==
  /\ jwtPc = "idle"
  /\ signedIn' = TRUE
  /\ token' = JwtSignIn(acc, sub, now)
  /\ jwtArg' = token
  /\ jwtNow' = now
  /\ jwtOut' = "signin"
  /\ fetchCalls' = 0
  /\ account' = acc
  /\ jwtPc' = "idle"
  /\ UNCHANGED <<now, session, sessionExp, response, chatVars>>

\* jwt({token}) of a session read, up to its return or to the await of the
\* refresh call; on return the session callback builds the client's session
JwtRead ==
  /\ signedIn
  /\ jwtPc = "idle"
  /\ jwtArg' = token
  /\ jwtNow' = now
  /\ IF TokenStillValid(token, now)
     THEN /\ fetchCalls' = 0
          /\ jwtOut' = "valid"
          /\ jwtPc' = "idle"
          /\ token' = token
          /\ session' = SessionCallback(token)
          /\ sessionExp' = token.accessTokenExpires
     ELSE /\ fetchCalls' = 1
          /\ jwtOut' = "pending"
          /\ jwtPc' = "fetching"
          /\ UNCHANGED <<token, session, sessionExp>>
  /\ UNCHANGED <<now, signedIn, account, response, chatVars>>

\* the refresh call settles with resp; refreshAccessToken and jwt return,
\* the session callback builds the client's session
RefreshSettle(resp) ==
  /\ jwtPc = "fetching"
  /\ response' = resp
  /\ token' = RefreshAccessToken(jwtArg, resp, now)
  /\ jwtOut' = IF resp.kind = "ok" THEN "refreshed" ELSE "failed"
  /\ session' = SessionCallback(token')
  /\ sessionExp' = token'.accessTokenExpires
  /\ jwtPc' = "idle"
  /\ UNCHANGED <<now, signedIn, jwtArg, jwtNow, fetchCalls, account, chatVars>>

\* the identity provider never answers the refresh call: fetch is given no
\* signal and no timeout, its promise stays pending and the await in
\* refreshAccessToken never resumes
IdpNeverAnswers ==
  /\ jwtPc = "fetching"
  /\ jwtPc' = "unanswered"
  /\ UNCHANGED <<now, signedIn, token, session, sessionExp, jwtArg, jwtNow,
                 jwtOut, fetchCalls, account, response, chatVars>>

---------------------------------------------------------------------------
(* The chat page *)

\* the user edits the textarea
TypeTopic(t) ==
  /\ input' = t
  /\ input # t
  /\ UNCHANGED <<now, authVars, messages, check, chatPc, request, fetches, reply,
                 lastSubmit, logBefore>>

\* a click on the send button. While the button is disabled the browser
\* dispatches no click; otherwise handleSubmit runs up to its early return or
\* to the await of the generation call. A submit is accepted only while the
\* log has room for its two messages within limit.
ClickSend(limit) ==
  /\ ButtonDisabled(check) \/ SubmitRejected(input, session)
       \/ Len(messages) + 2 <= limit
  /\ IF ButtonDisabled(check)
     THEN /\ lastSubmit' = "blocked"
          /\ UNCHANGED <<input, messages, check, chatPc, request, fetches,
                         logBefore>>
     ELSE IF SubmitRejected(input, session)
     THEN /\ lastSubmit' = "noop"
          /\ UNCHANGED <<input, messages, check, chatPc, request, fetches,
                         logBefore>>
     ELSE /\ input' = <<>>
          /\ messages' = LogAfterSubmit(messages, input)
          /\ check' = CheckAfterSubmit(check)
          /\ chatPc' = "awaiting"
          /\ request' = [topic |-> input,
                         access_token |-> session.accessToken,
                         authorization |-> <<"Bearer", session.accessToken>>,
                         sentAt |-> now,
                         tokenExp |-> sessionExp]
          /\ fetches' = fetches + 1
          /\ lastSubmit' = "sent"
          /\ logBefore' = messages
  /\ UNCHANGED <<now, authVars, reply>>

\* the generation call settles with rep; handleSubmit runs to its end
Settle(rep) ==
  /\ chatPc = "awaiting"
  /\ reply' = rep
  /\ messages' = LogAfterSettle(messages, rep)
  /\ check' = CheckAfterSettle(check, rep)
  /\ chatPc' = "idle"
  /\ lastSubmit' = Outcome(rep)
  /\ UNCHANGED <<now, authVars, input, request, fetches, logBefore>>

---------------------------------------------------------------------------
(* Specifications *)

\* the credential lifecycle, with every account and every answer
NextAuth ==
  \/ TickSecond
  \/ TickHour
  \/ \E acc \in Accounts, sub \in Subs : SignIn(acc, sub)
  \/ JwtRead
  \/ \E resp \in Responses : RefreshSettle(resp)

SpecAuth == Init /\ [][NextAuth]_vars

\* the conversation with every topic and every answer of the backend, the
\* clock standing still: one sign-in, valid session reads
NextChat ==
  \/ \E acc \in OneAccount, sub \in Subs : SignIn(acc, sub)
  \/ JwtRead
  \/ \E t \in Topics : TypeTopic(t)
  \/ ClickSend(MaxMessages)
  \/ \E rep \in Replies : Settle(rep)

SpecChat == Init /\ [][NextChat]_vars

\* the conversation beside the credential lifecycle, the clock running
NextUse ==
  \/ TickSecond
  \/ \E acc \in OneAccount, sub \in Subs : SignIn(acc, sub)
  \/ JwtRead
  \/ \E resp \in TwoResponses : RefreshSettle(resp)
  \/ \E t \in OneTopic : TypeTopic(t)
  \/ ClickSend(2 * MaxExchanges)
  \/ \E rep \in ThreeReplies : Settle(rep)

SpecUse == Init /\ [][NextUse]_vars

\* the credential lifecycle with an identity provider that may stay silent;
\* an answer that arrives is always handed to the awaiting callback
NextAuthLive ==
  \/ TickSecond
  \/ \E acc \in Accounts, sub \in Subs : SignIn(acc, sub)
  \/ JwtRead
  \/ \E resp \in TwoResponses : RefreshSettle(resp)
  \/ IdpNeverAnswers

SpecAuthLive ==
  /\ Init
  /\ [][NextAuthLive]_vars
  /\ WF_vars(\E resp \in TwoResponses : RefreshSettle(resp))

---------------------------------------------------------------------------
(* Properties *)

\* the jwt callback was last invoked for a session read (no account / profile)
LastJwtWasRead == jwtOut \in {"valid", "pending", "refreshed", "failed"}

\* a >= b : false when either side is NaN
AtLeast(a, b) == a # NaN /\ b # NaN /\ a >= b

\* C1: a session read at a time before accessTokenExpires makes no call to
\* the identity provider and returns the stored token, every field unchanged.
ValidReadReturnsStoredToken ==
  (LastJwtWasRead /\ Less(jwtNow, jwtArg.accessTokenExpires))
    => /\ jwtOut = "valid"
       /\ jwtPc = "idle"
       /\ fetchCalls = 0
       /\ token = jwtArg

\* a read of a still valid token has returned
ValidReadHappened ==
  /\ jwtOut = "valid"
  /\ Less(jwtNow, jwtArg.accessTokenExpires)
  /\ jwtArg.accessToken \in AccessTokens \cup RefreshedAccessTokens
  /\ token = jwtArg

\* C2: a session read at a time at or after accessTokenExpires makes exactly
\* one call to the token endpoint: never none, never a second one, also after
\* the call has failed.
ExpiredReadCallsOnce ==
  (LastJwtWasRead /\ AtLeast(jwtNow, jwtArg.accessTokenExpires))
    => /\ jwtOut \in {"pending", "refreshed", "failed"}
       /\ fetchCalls = 1

\* a read at the very instant of expiry has made its call and seen it fail
ExpiredReadFailedAfterOneCall ==
  /\ jwtOut = "failed"
  /\ jwtNow = jwtArg.accessTokenExpires
  /\ fetchCalls = 1

\* C3: when the refresh call fails (response not ok, fetch rejected, body not
\* JSON) refreshAccessToken returns, and the token it returns carries
\* "RefreshAccessTokenError" and the accessToken, refreshToken and
\* accessTokenExpires it was given.
FailedRefreshKeepsCredentials ==
  (LastJwtWasRead /\ jwtPc = "idle"
     /\ response.kind \in {"notok", "neterr", "badjson"}
     /\ jwtOut # "valid")
    => /\ jwtOut = "failed"
       /\ token.error = "RefreshAccessTokenError"
       /\ token.accessToken = jwtArg.accessToken
       /\ token.refreshToken = jwtArg.refreshToken
       /\ token.accessTokenExpires = jwtArg.accessTokenExpires

\* a refresh whose body could not be parsed has returned the tagged token
FailedRefreshHappened ==
  /\ jwtOut = "failed"
  /\ response.kind = "badjson"
  /\ token.error = "RefreshAccessTokenError"
  /\ token.accessToken \in AccessTokens

\* C4: the token of an initial sign-in at time t expires at t plus the
\* declared lifetime, a declared lifetime of 0 included, and at t plus 3600
\* seconds exactly when no lifetime is declared.
SignInExpiryIsDeclaredLifetime ==
  jwtOut = "signin"
    => token.accessTokenExpires =
         jwtNow + (IF account.expires_in = NoNumber
                   THEN 3600 * 1000
                   ELSE account.expires_in * 1000)

\* C5: when the refresh call succeeds at time t the returned token has the
\* response's access token, expires at t plus the returned lifetime, and has
\* the response's refresh token if there is one and the prior one if not.
SuccessfulRefreshReplacesCredentials ==
  [][(jwtPc = "fetching" /\ jwtPc' = "idle" /\ response'.kind = "ok")
       => /\ jwtOut' = "refreshed"
          /\ token'.accessToken = response'.access_token
          /\ (response'.expires_in # NoNumber
                => token'.accessTokenExpires = now + response'.expires_in * 1000)
          /\ token'.refreshToken =
               (IF response'.refresh_token \in RotatedRefreshTokens
                THEN response'.refresh_token
                ELSE token.refreshToken)]_vars

\* a refresh without a rotated refresh token has succeeded some time after
\* the read began
SuccessfulRefreshHappened ==
  /\ jwtOut = "refreshed"
  /\ response.kind = "ok"
  /\ response.refresh_token = Undefined
  /\ token.refreshToken = jwtArg.refreshToken
  /\ token.accessToken = response.access_token
  /\ token.accessTokenExpires = now + response.expires_in * 1000
  /\ now > jwtNow

\* C6: once a refresh has failed (the error tag is on the token), no later
\* read before a new sign-in starts another refresh call or changes
\* accessToken or accessTokenExpires.
RefreshFailedIsTerminal ==
  [][(token.error = "RefreshAccessTokenError" /\ jwtPc = "idle"
        /\ jwtOut' # "signin")
       => /\ jwtPc' = "idle"
          /\ token'.accessToken = token.accessToken
          /\ token'.accessTokenExpires = token.accessTokenExpires]_vars

\* C7: every generation request carries an access token whose
\* accessTokenExpires is later than the time the request is sent.
NoExpiredTokenSent ==
  chatPc = "awaiting" => Less(request.sentAt, request.tokenExp)

\* C8: when the topic is blank after trimming or the session has no
\* accessToken, handleSubmit sends no request and leaves the log and the
\* in-flight flag as they were.
RejectedSubmitIsNoOp ==
  [][(/\ lastSubmit' # lastSubmit
      /\ lastSubmit' \in {"noop", "sent"}
      /\ \/ \A i \in 1..Len(input) : input[i] \in WhiteSpace
         \/ session.accessToken = Undefined)
       => /\ lastSubmit' = "noop"
          /\ messages' = messages
          /\ check' = check
          /\ chatPc' = chatPc
          /\ request' = request]_vars

\* a click with a topic of blanks only was rejected although a token was there
BlankSubmitRejected ==
  /\ lastSubmit = "noop"
  /\ input # <<>>
  /\ \A i \in 1..Len(input) : input[i] \in WhiteSpace
  /\ session.accessToken # Undefined
  /\ messages = <<>>
  /\ ~check

\* the last two messages of the log
LastMessage == messages[Len(messages)]
UserMessageBeforeLast == messages[Len(messages) - 1]

\* the log is the log before the submit, the topic, and one answer
LogGrewByExchange ==
  /\ Len(messages) = Len(logBefore) + 2
  /\ SubSeq(messages, 1, Len(logBefore)) = logBefore
  /\ UserMessageBeforeLast = [sender |-> "user", text |-> request.topic]
  /\ LastMessage.sender = "ai"

\* C9: after an accepted submit answered with success and a url, the log has
\* grown by the user's topic and one answer, and the link the page extracts
\* from the answer is the url, whatever the url.
SuccessLinkIsUrl ==
  (chatPc = "idle" /\ reply.kind = "object" /\ reply.success
     /\ reply.hasUrl /\ reply.url # <<>>)
    => /\ LogGrewByExchange
       /\ RendersLink(LastMessage.text)
       /\ Href(LastMessage.text) = reply.url

\* C10: after an accepted submit answered with a parsed object that does not
\* carry success and a url, the log has grown by the user's topic and the
\* apology, and handleSubmit has run to its end.
SoftFailureAppendsApology ==
  (chatPc = "idle" /\ reply.kind = "object"
     /\ (~reply.success \/ ~reply.hasUrl \/ reply.url = <<>>))
    => /\ LogGrewByExchange
       /\ LastMessage.text = ApologyText
       /\ lastSubmit \in {"soft", "noop"}

\* success without a url was answered with the apology
SuccessWithoutUrlApologised ==
  /\ chatPc = "idle"
  /\ reply.kind = "object"
  /\ reply.success
  /\ ~reply.hasUrl
  /\ Len(messages) = 2
  /\ LastMessage = [sender |-> "ai", text |-> ApologyText]
  /\ lastSubmit = "soft"

\* C11: after an accepted submit whose network call throws or whose body
\* cannot be parsed, the log has grown by the user's topic and the "try
\* again" message, and handleSubmit has run to its end.
HardFailureAppendsTryAgain ==
  (chatPc = "idle" /\ reply.kind \in {"neterr", "badjson"})
    => /\ LogGrewByExchange
       /\ LastMessage.text = TryAgainText
       /\ lastSubmit \in {"hard", "noop"}

\* a reply whose body could not be parsed was answered with "try again"
UnparsableReplyAnswered ==
  /\ chatPc = "idle"
  /\ reply.kind = "badjson"
  /\ Len(messages) = 2
  /\ LastMessage = [sender |-> "ai", text |-> TryAgainText]
  /\ lastSubmit = "hard"

\* the last call settled with one of the three outcomes
Settled == lastSubmit \in {"success", "soft", "hard"}

\* C12: the in-flight flag is true from the accepted submit to the settling
\* of its call, is false once the call has settled, whatever the outcome, and
\* the next submit is then accepted.
FlagFollowsTheCall ==
  [][/\ (chatPc = "awaiting") => check
     /\ (chatPc = "idle") => ~check
     /\ (chatPc = "awaiting" /\ chatPc' = "idle")
          => (Settled' /\ ~check' /\ ~ButtonDisabled(check'))
     /\ (Settled /\ fetches' # fetches)
          => (~check /\ check' /\ chatPc' = "awaiting")]_vars

\* a second submit was accepted after the first had failed hard
AcceptedAgainAfterHardFailure ==
  /\ Len(messages) = 3
  /\ messages[2] = [sender |-> "ai", text |-> TryAgainText]
  /\ messages[3].sender = "user"
  /\ check
  /\ chatPc = "awaiting"
  /\ fetches = 2

\* the number of messages of the log sent by who
CountFrom(who) == Cardinality({i \in 1..Len(messages) : messages[i].sender = who})

\* C13: while the in-flight flag is true a further submit does nothing: no
\* request is sent and no message is appended by it; the log changes only
\* when the outstanding call settles, and at most one call is outstanding.
InFlightSubmitIsNoOp ==
  [][/\ fetches - CountFrom("ai") <= 1
     /\ check
          => /\ fetches' = fetches
             /\ request' = request
             /\ \/ messages' = messages
                \/ /\ chatPc = "awaiting" /\ chatPc' = "idle" /\ ~check'
                   /\ Len(messages') = Len(messages) + 1
                   /\ SubSeq(messages', 1, Len(messages)) = messages
                   /\ messages'[Len(messages')].sender = "ai"]_vars

\* the button was clicked with a topic typed and a token at hand while a
\* call was outstanding, and nothing came of it
ClickedWhileInFlight ==
  /\ lastSubmit = "blocked"
  /\ check
  /\ chatPc = "awaiting"
  /\ ~SubmitRejected(input, session)
  /\ Len(messages) = 1
  /\ fetches = 1

\* every refresh token the identity provider hands out
AllRefreshTokens == RefreshTokens \cup RotatedRefreshTokens

\* C14: the session handed to the page has the fields accessToken, error and
\* user only, none of them holds a refresh token, and the session built by a
\* read would be the same whatever refresh token the token held.
SessionHidesRefreshToken ==
  /\ DOMAIN session = {"accessToken", "error", "user"}
  /\ \A f \in DOMAIN session : session[f] \notin AllRefreshTokens
  /\ (LastJwtWasRead /\ jwtPc = "idle")
       => \A rt \in AllRefreshTokens \cup {Undefined} :
            SessionCallback([token EXCEPT !.refreshToken = rt]) = session

\* a session was built from a token whose refresh token had been rotated
SessionBuiltAfterRotation ==
  /\ jwtOut = "refreshed"
  /\ token.refreshToken \in RotatedRefreshTokens
  /\ session.accessToken = token.accessToken
  /\ session.accessToken \in RefreshedAccessTokens

\* the step is the return of a refresh that succeeded
RefreshSucceeds == jwtPc = "fetching" /\ jwtPc' = "idle" /\ response'.kind = "ok"

\* C15: between two initial sign-ins no read makes accessTokenExpires
\* earlier: a successful refresh replaces an expiry that is not after the
\* present by one that is not before it, every other read leaves it alone.
ExpiryNeverDecreases ==
  [][(signedIn /\ jwtOut' # "signin")
       => /\ ~Less(token'.accessTokenExpires, token.accessTokenExpires)
          /\ RefreshSucceeds
               => /\ token.accessTokenExpires # NaN
                       => token.accessTokenExpires <= now
                  /\ token'.accessTokenExpires # NaN
                       => token'.accessTokenExpires >= now
          /\ ~RefreshSucceeds
               => token'.accessTokenExpires = token.accessTokenExpires]_vars

\* a token that came from a refresh was refreshed again, to a later expiry
RefreshedTwice ==
  /\ jwtOut = "refreshed"
  /\ jwtArg.accessToken \in RefreshedAccessTokens
  /\ Less(jwtArg.accessTokenExpires, token.accessTokenExpires)

\* C16: once a failed refresh has set the error tag, every later read returns
\* a token with the tag, whether it finds the token valid, fails to refresh
\* it or refreshes it; every session built by a read carries the token's
\* tag; the tag goes away only with the token of a new initial sign-in.
ErrorTagPersists ==
  [][/\ (token.error = "RefreshAccessTokenError" /\ jwtOut' # "signin")
          => token'.error = "RefreshAccessTokenError"
     /\ (token.error = "RefreshAccessTokenError"
           /\ token'.error # "RefreshAccessTokenError")
          => (jwtOut' = "signin" /\ token'.error = Undefined)
     /\ (LastJwtWasRead' /\ jwtPc' = "idle")
          => session'.error = token'.error]_vars

\* after a failed and then a successful refresh a valid read still returned
\* the tag, and the session shows it
TagSurvivedRefresh ==
  /\ jwtOut = "valid"
  /\ token.accessToken \in RefreshedAccessTokens
  /\ token.error = "RefreshAccessTokenError"
  /\ session.error = "RefreshAccessTokenError"

\* C17: the log only grows at its end: in every step the log before the step
\* is a prefix of the log after it, so every earlier value of the log is a
\* prefix of every later one.
LogIsAppendOnly ==
  [][/\ Len(messages') >= Len(messages)
     /\ SubSeq(messages', 1, Len(messages)) = messages]_vars

\* a second exchange was appended behind the first
SecondExchangeAppended ==
  /\ Len(messages) = 4
  /\ logBefore = SubSeq(messages, 1, 2)
  /\ logBefore[2] = [sender |-> "ai", text |-> ApologyText]
  /\ lastSubmit = "success"

\* C18: every accepted submit sends one request and is answered once: the
\* requests sent are as many as the user messages, the answers as many as
\* the requests no longer outstanding, and the settling of a call appends
\* one message and sends nothing, whatever the outcome.
OneRequestOneAnswer ==
  [][/\ fetches = CountFrom("user")
     /\ CountFrom("ai") = fetches - (IF chatPc = "awaiting" THEN 1 ELSE 0)
     /\ (chatPc = "awaiting" /\ chatPc' = "idle")
          => /\ Settled'
             /\ fetches' = fetches
             /\ request' = request
             /\ Len(messages') = Len(messages) + 1
             /\ messages'[Len(messages')].sender = "ai"
     /\ (fetches' # fetches)
          => /\ fetches' = fetches + 1
             /\ chatPc = "idle" /\ chatPc' = "awaiting"
             /\ request'.topic = input
             /\ Len(messages') = Len(messages) + 1]_vars

\* two submits were accepted, the first failed hard, the second softly, and
\* two requests were sent in all
TwoFailuresTwoRequests ==
  /\ fetches = 2
  /\ chatPc = "idle"
  /\ lastSubmit = "soft"
  /\ Len(messages) = 4
  /\ messages[2].text = TryAgainText
  /\ messages[4].text = ApologyText

\* C20: the log alternates user and ai messages, starting with a user
\* message; the in-flight flag is true exactly when the log ends with a user
\* message, one more user message than ai messages, and false exactly when
\* there are as many of the one as of the other.
LogAlternatesWithFlag ==
  /\ \A i \in 1..Len(messages) :
       messages[i].sender = (IF i % 2 = 1 THEN "user" ELSE "ai")
  /\ check <=> (Len(messages) > 0 /\ LastMessage.sender = "user")
  /\ check => CountFrom("user") = CountFrom("ai") + 1
  /\ ~check => CountFrom("user") = CountFrom("ai")

\* a second topic is in flight behind an apology
SecondTopicInFlight ==
  /\ Len(messages) = 3
  /\ check
  /\ messages[2] = [sender |-> "ai", text |-> ApologyText]
  /\ messages[3] = [sender |-> "user", text |-> request.topic]

\* C19: a session read never blocks for ever: every read that finds the
\* token expired eventually returns, with the refreshed token or with a token
\* carrying the error tag, also when the identity provider never answers.
ExpiredReadEventuallyReturns ==
  (jwtOut = "pending") ~> (jwtPc = "idle" /\ jwtOut \in {"refreshed", "failed"})

====
